---- MODULE Spec2Model ----
(***************************************************************************)
(* Model of the saniprocli session engine (saniprocli/cli_runner.py) and   *)
(* of its input strategies (saniprocli/inputs.py).                         *)
(*                                                                         *)
(* A string is a sequence of one-character strings, so that concatenation, *)
(* stripping and emptiness are computed and not assumed.  One step of the  *)
(* model is what the program does between two blocking calls of the        *)
(* builtin input(): the delivery of one raw event (a line, end-of-file,    *)
(* an interrupt) to the strategy and to the session loop, or the           *)
(* invocation of the execution callback with what the loop does with its   *)
(* result.                                                                 *)
(***************************************************************************)
EXTENDS Integers, Sequences, FiniteSets, TLC

VARIABLES
    variant,          \* which runner class run() is called on
    strategy,         \* which InputStrategy the runner holds
    pc,               \* "start" | "input" (blocked in input()) | "exec" | "done"
    buffer,           \* MultipleInputStrategy.input: the local list `buffer`
    state,            \* RunnerInteractiveMultiple._start_loop: `state`
    first,            \* RunnerInteractiveMultiple._start_loop: `first`
    second,           \* RunnerInteractiveMultiple._start_loop: `second`
    _color,           \* RunnerInteractiveMultiple._start_loop: `_color`
    color_foreground, \* saniprocli.color.color_foreground (module global)
    prompt_input,     \* RunnerInteractiveSingle._start_loop: `prompt_input`
    sentence,         \* RunnerNonInteractiveSingle._run_once: `sentence`
    pending_exit,     \* _run_once: SystemExit raised by sys.exit(1), pending in `finally`
    outcome,          \* how run() ended: "running" | "returned" | "SystemExit" | "ValueError"
    stdout,           \* the strings written to sys.stdout, one entry per write
    stderr,           \* the strings written to sys.stderr
    log,              \* the records passed to logger.fatal
    lifecycle,        \* the lifecycle hooks run() has called, in order
    calls,            \* history: the callback invocations, [args, ok]
    events,           \* history: the raw events delivered by the builtin input()
    inputs            \* history: what InputStrategy.input() returned or raised

vars == <<variant, strategy, pc, buffer, state, first, second, _color,
          color_foreground, prompt_input, sentence, pending_exit, outcome,
          stdout, stderr, log, lifecycle, calls, events, inputs>>

\* The table build (saniprocli/textutils.py), a computation of its own.
VARIABLES
    lines,            \* CSVUtilsBase.lines: the raw rows
    delim,            \* CSVUtilsBase.delim: the row delimiter
    key_idx,          \* prepare_kv: key_idx (1-based)
    value_idx,        \* prepare_kv: value_idx (1-based)
    csv_pc,           \* "off" | "validate" | "rows" | "returned" | "ValueError" | "IndexError"
    row_no,           \* prepare_kv: the number of rows the generator has yielded
    kv                \* prepare_kv: the dict the comprehension is building

csv_vars == <<lines, delim, key_idx, value_idx, csv_pc, row_no, kv>>

\* The tag lookup (saniproclidemo/tfind.py): the TokenFinder's configuration
\* and table, and one call of execute or of escape_parentheses.
VARIABLES
    tags_n_count,     \* the table handed to TokenFinder.execute as kvstore
    sep_input,        \* Delimiter.sep_input
    sep_output,       \* Delimiter.sep_output
    sep_field,        \* Delimiter.sep_field, or None
    _formatter,       \* TokenFinder._formatter: "csv" | "a1111"
    arg_prompt,       \* execute: the argument prompt
    finder_pc,        \* "off" | "call" | "returned" | "ValueError"
    ret,              \* execute: the list `result` and the string returned
    esc_arg,          \* escape_parentheses: the argument text
    esc_pc,           \* "off" | "call" | "returned"
    esc_ret           \* escape_parentheses: the string returned

finder_vars == <<tags_n_count, sep_input, sep_output, sep_field, _formatter,
                 arg_prompt, finder_pc, ret, esc_arg, esc_pc, esc_ret>>

\* The history file of the interactive tag-lookup session.
VARIABLES
    histfile,         \* the file on disk: "absent" | "exists" | "removed"
    _histfile,        \* RunnerTagFindInteractive._histfile is set
    removals          \* history: the number of os.remove calls on the file

hist_vars == <<histfile, _histfile, removals>>

\* The variables of the computations other than the session engine.
tool_vars == <<csv_vars, finder_vars, hist_vars>>

all_vars == <<vars, tool_vars>>

----------------------------------------------------------------------------
(* Bounds and input alphabet *)

\* The number of raw input events one run may consume.
MaxEvents == 5

\* The lines the builtin input() may return (without their line terminator).
Lines == { <<>>, <<"a">>, <<"b">>, <<" ", "c", " ">> }

Line(l)   == [k |-> "line", t |-> l]
EOF       == [k |-> "eof", t |-> <<>>]
Interrupt == [k |-> "int", t |-> <<>>]

Variants   == {"single", "dual", "nonint"}
Strategies == {"oneline", "multi"}

----------------------------------------------------------------------------
(* Strings *)

Whitespace == {" ", "\t", "\n"}

RECURSIVE LStrip(_)
LStrip(s) == IF s # <<>> /\ Head(s) \in Whitespace THEN LStrip(Tail(s)) ELSE s

RECURSIVE RStrip(_)
RStrip(s) ==
    IF s # <<>> /\ s[Len(s)] \in Whitespace
    THEN RStrip(SubSeq(s, 1, Len(s) - 1))
    ELSE s

\* str.strip()
Strip(s) == RStrip(LStrip(s))

RECURSIVE JoinSep(_, _)
JoinSep(buf, sep) ==
    IF buf = <<>> THEN <<>>
    ELSE IF Len(buf) = 1 THEN buf[1]
    ELSE buf[1] \o sep \o JoinSep(Tail(buf), sep)

\* "".join(buffer)
Join(buf) == JoinSep(buf, <<>>)

Last(s) == s[Len(s)]

----------------------------------------------------------------------------
(* Input strategies: the outcome of delivering one raw event *)

Return(t)  == [k |-> "text", t |-> t, buffer |-> <<>>, echo |-> <<>>]
Raise(exc) == [k |-> exc, t |-> <<>>, buffer |-> <<>>, echo |-> <<>>]

\* OnelineInputStrategy.input: one line per call.
OnelineInput(ev) ==
    CASE ev.k = "line" -> Return(ev.t)
      [] ev.k = "eof"  -> Raise("EOFError")
      [] ev.k = "int"  -> Raise("KeyboardInterrupt")

MultipleInput_sep(buf, ev) ==
    CASE ev.k = "line" ->
            [k |-> "more", t |-> <<>>, buffer |-> Append(buf, ev.t), echo |-> <<>>]
      [] ev.k = "eof"  ->
            IF buf # <<>>
            THEN [Return(JoinSep(buf, <<"\n">>)) EXCEPT !.echo = << <<"\n">> >>]
            ELSE Raise("EOFError")
      [] ev.k = "int"  -> Raise("KeyboardInterrupt")

\* Mutant: EOFError is raised again whatever the buffer holds.
MultipleInput_eofRaises(buf, ev) ==
    CASE ev.k = "line" ->
            [k |-> "more", t |-> <<>>, buffer |-> Append(buf, ev.t), echo |-> <<>>]
      [] ev.k = "eof"  -> Raise("EOFError")
      [] ev.k = "int"  -> Raise("KeyboardInterrupt")

\* MultipleInputStrategy.input: lines are appended to `buffer` until EOFError;
\* a non-empty buffer is then joined and returned (a newline is echoed),
\* an empty one re-raises.  "more": the call is still blocked in its loop.
MultipleInput(buf, ev) ==
    CASE ev.k = "line" ->
            [k |-> "more", t |-> <<>>, buffer |-> Append(buf, ev.t), echo |-> <<>>]
      [] ev.k = "eof"  ->
            IF buf # <<>>
            THEN [Return(Join(buf)) EXCEPT !.echo = << <<"\n">> >>]
            ELSE Raise("EOFError")
      [] ev.k = "int"  -> Raise("KeyboardInterrupt")

\* self._input_strategy.input()
StrategyInput(ev) ==
    IF strategy = "oneline" THEN OnelineInput(ev) ELSE MultipleInput(buffer, ev)

----------------------------------------------------------------------------
(* The execution callback and the strings the sessions write *)

\* The abstract _execute_single_inner: an injective stand-in for its result.
ExecuteSingle(source) == <<"S(">> \o source \o <<")">>

\* The abstract _execute_multi_inner.
ExecuteMulti(a, b) == <<"M(">> \o a \o <<"|">> \o b \o <<")">>

Banner            == <<"Sanipro (created by iigau) in interactive mode\n">>
InterruptNotice   == <<"\n", "KeyboardInterrupt", "\n">>
Newline           == <<"\n">>
FatalValueError   == <<"error: ", "ValueError">>

\* No table build is going on.
CsvOff ==
    /\ lines = <<>>
    /\ delim = <<>>
    /\ key_idx = 0
    /\ value_idx = 0
    /\ csv_pc = "off"
    /\ row_no = 0
    /\ kv = <<>>

\* None of Python, told apart from every string.
None == << "None" >>

\* No TokenFinder exists.
FinderOff ==
    /\ tags_n_count = <<>>
    /\ sep_input = <<>>
    /\ sep_output = <<>>
    /\ sep_field = None
    /\ _formatter = "none"
    /\ arg_prompt = <<>>
    /\ finder_pc = "off"
    /\ ret = [records |-> <<>>, t |-> <<>>]
    /\ esc_arg = <<>>
    /\ esc_pc = "off"
    /\ esc_ret = <<>>

\* No history file exists.
HistOff ==
    /\ histfile = "absent"
    /\ _histfile = FALSE
    /\ removals = 0

Init ==
    /\ variant \in Variants
    /\ strategy \in Strategies
    /\ pc = "start"
    /\ buffer = <<>>
    /\ state = 0
    /\ first = <<>>
    /\ second = <<>>
    /\ _color = "cyan"
    /\ color_foreground = "cyan"
    /\ prompt_input = <<>>
    /\ sentence = <<>>
    /\ pending_exit = FALSE
    /\ outcome = "running"
    /\ stdout = <<>>
    /\ stderr = <<>>
    /\ log = <<>>
    /\ lifecycle = <<>>
    /\ calls = <<>>
    /\ events = <<>>
    /\ inputs = <<>>
    /\ CsvOff
    /\ FinderOff
    /\ HistOff

----------------------------------------------------------------------------
(* run(): from the call to the first blocking input() *)

\* RunnerInteractive.run: hooks, banner, _on_init, then _start_loop up to its
\* first input() (for the dual loop: state = 00, first = second = "",
\* _color = color.color_foreground).
RunInteractive ==
    /\ UNCHANGED tool_vars
    /\ pc = "start"
    /\ variant \in {"single", "dual"}
    /\ stdout' = Append(stdout, Banner)
    /\ lifecycle' = Append(lifecycle, "_on_init")
    /\ IF variant = "dual"
       THEN /\ state' = 0
            /\ first' = <<>>
            /\ second' = <<>>
            /\ _color' = color_foreground
       ELSE UNCHANGED <<state, first, second, _color>>
    /\ pc' = "input"
    /\ UNCHANGED <<variant, strategy, buffer, color_foreground, prompt_input,
                   sentence, pending_exit, outcome, stderr, log, calls, events,
                   inputs>>

\* RunnerNonInteractiveSingle.run -> _run_once up to input(): sentence = "".
RunNonInteractive ==
    /\ UNCHANGED tool_vars
    /\ pc = "start"
    /\ variant = "nonint"
    /\ sentence' = <<>>
    /\ pc' = "input"
    /\ UNCHANGED <<variant, strategy, buffer, state, first, second, _color,
                   color_foreground, prompt_input, pending_exit, outcome, stdout,
                   stderr, log, lifecycle, calls, events, inputs>>

\* What every delivery of a raw event records: the event, the strategy's
\* buffer, and (when the strategy call ended) what it returned or raised.
Deliver(ev, r) ==
    /\ events' = Append(events, ev)
    /\ buffer' = r.buffer
    /\ inputs' = IF r.k = "more" THEN inputs
                 ELSE Append(inputs, [k |-> r.k, t |-> r.t])

RawEvents == {Line(l) : l \in Lines} \cup {EOF, Interrupt}

----------------------------------------------------------------------------
(* RunnerInteractiveSingle *)

\* Mutant: an interrupt leaves the loop like an EOFError.
SingleBody_interruptBreaks(r) ==
    CASE r.k = "more"              -> [next |-> "input", out |-> <<>>]
      [] r.k = "text" /\ r.t # <<>> -> [next |-> "exec", out |-> <<>>]
      [] r.k = "text" /\ r.t = <<>> -> [next |-> "input", out |-> <<>>]
      [] r.k = "EOFError"          -> [next |-> "break", out |-> <<>>]
      [] r.k = "KeyboardInterrupt" -> [next |-> "break", out |-> <<InterruptNotice>>]

\* Mutant: the `if prompt_input:` test is dropped.
SingleBody_execEmpty(r) ==
    CASE r.k = "more"              -> [next |-> "input", out |-> <<>>]
      [] r.k = "text"              -> [next |-> "exec", out |-> <<>>]
      [] r.k = "EOFError"          -> [next |-> "break", out |-> <<>>]
      [] r.k = "KeyboardInterrupt" -> [next |-> "input", out |-> <<InterruptNotice>>]

\* _start_loop, the body of `while True` on the outcome r of input():
\* where control goes next and what is written.
SingleBody(r) ==
    CASE r.k = "more"              -> [next |-> "input", out |-> <<>>]
      [] r.k = "text" /\ r.t # <<>> -> [next |-> "exec", out |-> <<>>]
      [] r.k = "text" /\ r.t = <<>> -> [next |-> "input", out |-> <<>>]
      [] r.k = "EOFError"          -> [next |-> "break", out |-> <<>>]
      [] r.k = "KeyboardInterrupt" -> [next |-> "input", out |-> <<InterruptNotice>>]

\* _start_loop, `out = self._execute_single(prompt_input); self._write(...)`
\* and `except ValueError`: what is written, what is logged, where control goes.
SingleExecuted(ok) ==
    IF ok
    THEN [next |-> "input", out |-> <<ExecuteSingle(prompt_input) \o Newline>>,
          log |-> <<>>]
    ELSE [next |-> "input", out |-> <<>>, log |-> <<FatalValueError>>]

\* One raw event delivered to an interactive single-input session.
SingleInput(ev) ==
    /\ UNCHANGED tool_vars
    /\ pc = "input"
    /\ variant = "single"
    /\ Len(events) < MaxEvents
    /\ LET r == StrategyInput(ev)
           b == SingleBody(r)
       IN /\ Deliver(ev, r)
          /\ prompt_input' = IF r.k = "text" THEN r.t ELSE prompt_input
          /\ IF b.next = "break"
             THEN \* line 95, then run() line 58
                  /\ stdout' = stdout \o r.echo \o b.out \o <<Newline>>
                  /\ lifecycle' = Append(lifecycle, "_on_exit")
                  /\ pc' = "done"
                  /\ outcome' = "returned"
             ELSE /\ stdout' = stdout \o r.echo \o b.out
                  /\ pc' = b.next
                  /\ UNCHANGED <<lifecycle, outcome>>
    /\ UNCHANGED <<variant, strategy, state, first, second, _color,
                   color_foreground, sentence, pending_exit, stderr, log, calls>>

\* The callback on a non-empty prompt_input; it returns or raises ValueError.
SingleExecute ==
    /\ UNCHANGED tool_vars
    /\ pc = "exec"
    /\ variant = "single"
    /\ \E ok \in BOOLEAN :
         LET x == SingleExecuted(ok)
         IN /\ calls' = Append(calls, [args |-> <<prompt_input>>, ok |-> ok])
            /\ stdout' = stdout \o x.out
            /\ log' = log \o x.log
            /\ pc' = x.next
    /\ UNCHANGED <<variant, strategy, buffer, state, first, second, _color,
                   color_foreground, prompt_input, sentence, pending_exit,
                   outcome, stderr, lifecycle, events, inputs>>

----------------------------------------------------------------------------
(* RunnerInteractiveMultiple *)

\* Mutant: an empty input is taken for the end of the input.
HandleInput_emptyIsEof(r) ==
    CASE r.k = "more"              -> [k |-> "blocked", t |-> <<>>, out |-> <<>>]
      [] r.k = "text" /\ r.t # <<>> -> [k |-> "return", t |-> r.t, out |-> <<>>]
      [] r.k = "text" /\ r.t = <<>> -> [k |-> "EOFError", t |-> <<>>, out |-> <<>>]
      [] r.k = "EOFError"          -> [k |-> "EOFError", t |-> <<>>, out |-> <<>>]
      [] r.k = "KeyboardInterrupt" ->
            [k |-> "again", t |-> <<>>, out |-> <<InterruptNotice>>]

\* Mutant: an interrupt is passed on like an EOFError.
HandleInput_interruptAborts(r) ==
    CASE r.k = "more"              -> [k |-> "blocked", t |-> <<>>, out |-> <<>>]
      [] r.k = "text" /\ r.t # <<>> -> [k |-> "return", t |-> r.t, out |-> <<>>]
      [] r.k = "text" /\ r.t = <<>> -> [k |-> "again", t |-> <<>>, out |-> <<>>]
      [] r.k = "EOFError"          -> [k |-> "EOFError", t |-> <<>>, out |-> <<>>]
      [] r.k = "KeyboardInterrupt" ->
            [k |-> "EOFError", t |-> <<>>, out |-> <<InterruptNotice>>]

\* _handle_input on the outcome r of input(): it returns only a non-empty
\* text, re-raises EOFError, and calls input() again otherwise.  (Its
\* `except Exception` branch needs an input() that raises something else than
\* EOFError or KeyboardInterrupt, which the raw events here do not include.)
HandleInput(r) ==
    CASE r.k = "more"              -> [k |-> "blocked", t |-> <<>>, out |-> <<>>]
      [] r.k = "text" /\ r.t # <<>> -> [k |-> "return", t |-> r.t, out |-> <<>>]
      [] r.k = "text" /\ r.t = <<>> -> [k |-> "again", t |-> <<>>, out |-> <<>>]
      [] r.k = "EOFError"          -> [k |-> "EOFError", t |-> <<>>, out |-> <<>>]
      [] r.k = "KeyboardInterrupt" ->
            [k |-> "again", t |-> <<>>, out |-> <<InterruptNotice>>]

Same == [state |-> state, first |-> first, second |-> second,
         color |-> color_foreground, end |-> FALSE]

\* _start_loop, `if state == 00` on the outcome h of _handle_input; a returned
\* text moves to state 10, whose branch sets the cue before it reads.
AwaitingFirst(h) ==
    CASE h.k = "return"   -> [Same EXCEPT !.state = 10, !.first = h.t,
                                          !.color = "green"]
      [] h.k = "EOFError" -> [Same EXCEPT !.end = TRUE]
      [] OTHER            -> Same

\* Mutant: an EOFError in state 10 leaves the loop like one in state 00.
AwaitingSecond_break(h) ==
    CASE h.k = "return"   -> [Same EXCEPT !.state = 20, !.second = h.t]
      [] h.k = "EOFError" -> [Same EXCEPT !.end = TRUE]
      [] OTHER            -> Same

\* Mutant: an EOFError in state 10 is swallowed without resetting the state.
AwaitingSecond_noreset(h) ==
    CASE h.k = "return"   -> [Same EXCEPT !.state = 20, !.second = h.t]
      [] OTHER            -> Same

\* _start_loop, `elif state == 10` on the outcome h of _handle_input.
AwaitingSecond(h) ==
    CASE h.k = "return"   -> [Same EXCEPT !.state = 20, !.second = h.t]
      [] h.k = "EOFError" -> [Same EXCEPT !.state = 0, !.color = _color]
      [] OTHER            -> Same

\* One raw event delivered to an interactive dual-input session.
DualInput(ev) ==
    /\ UNCHANGED tool_vars
    /\ pc = "input"
    /\ variant = "dual"
    /\ Len(events) < MaxEvents
    /\ LET r == StrategyInput(ev)
           h == HandleInput(r)
           n == IF state = 0 THEN AwaitingFirst(h) ELSE AwaitingSecond(h)
       IN /\ Deliver(ev, r)
          /\ state' = n.state
          /\ first' = n.first
          /\ second' = n.second
          /\ color_foreground' = n.color
          /\ IF n.end
             THEN \* `except EOFError: break`, line 170, then run() line 58
                  /\ stdout' = stdout \o r.echo \o h.out \o <<Newline>>
                  /\ lifecycle' = Append(lifecycle, "_on_exit")
                  /\ pc' = "done"
                  /\ outcome' = "returned"
             ELSE /\ stdout' = stdout \o r.echo \o h.out
                  /\ pc' = IF n.state = 20 THEN "exec" ELSE "input"
                  /\ UNCHANGED <<lifecycle, outcome>>
    /\ UNCHANGED <<variant, strategy, _color, prompt_input, sentence,
                   pending_exit, stderr, log, calls>>

\* Mutant: the pair is handed over in the wrong order.
ReadyArgs_swapped == <<second, first>>

\* _start_loop, `elif state == 20`: the arguments the callback is given.
ReadyArgs == <<first, second>>

\* _start_loop, `elif state == 20`: the callback on (first, second).  When it
\* returns, the result is written, the cue restored and the outer loop starts
\* the next pair; a ValueError is caught nowhere and leaves run().
DualExecute ==
    /\ UNCHANGED tool_vars
    /\ pc = "exec"
    /\ variant = "dual"
    /\ state = 20
    /\ \E ok \in BOOLEAN :
         /\ calls' = Append(calls, [args |-> ReadyArgs, ok |-> ok])
         /\ IF ok
            THEN /\ stdout' = Append(stdout,
                                ExecuteMulti(ReadyArgs[1], ReadyArgs[2]) \o Newline)
                 /\ color_foreground' = _color
                 /\ state' = 0
                 /\ first' = <<>>
                 /\ second' = <<>>
                 /\ _color' = color_foreground'
                 /\ pc' = "input"
                 /\ UNCHANGED outcome
            ELSE /\ pc' = "done"
                 /\ outcome' = "ValueError"
                 /\ UNCHANGED <<stdout, color_foreground, state, first, second,
                                _color>>
    /\ UNCHANGED <<variant, strategy, buffer, prompt_input, sentence,
                   pending_exit, stderr, log, lifecycle, events, inputs>>

----------------------------------------------------------------------------
(* RunnerNonInteractiveSingle *)

\* Mutant: only KeyboardInterrupt forces the exit; EOFError reads as "".
RunOnceRead_eofReturns(r) ==
    CASE r.k = "text" -> [sentence |-> Strip(r.t), exit |-> FALSE, err |-> <<>>]
      [] r.k = "EOFError" -> [sentence |-> sentence, exit |-> FALSE, err |-> <<>>]
      [] r.k = "KeyboardInterrupt" ->
            [sentence |-> sentence, exit |-> TRUE, err |-> <<Newline>>]

\* _run_once, the `try` and its `except (KeyboardInterrupt, EOFError)`:
\* the sentence, whether sys.exit(1) was called, what goes to stderr.
RunOnceRead(r) ==
    CASE r.k = "text" -> [sentence |-> Strip(r.t), exit |-> FALSE, err |-> <<>>]
      [] r.k \in {"EOFError", "KeyboardInterrupt"} ->
            [sentence |-> sentence, exit |-> TRUE, err |-> <<Newline>>]

\* One raw event delivered to a non-interactive session.
NonInteractiveInput(ev) ==
    /\ UNCHANGED tool_vars
    /\ pc = "input"
    /\ variant = "nonint"
    /\ Len(events) < MaxEvents
    /\ LET r == StrategyInput(ev)
       IN /\ Deliver(ev, r)
          /\ stdout' = stdout \o r.echo
          /\ IF r.k = "more"
             THEN UNCHANGED <<sentence, pending_exit, stderr, pc>>
             ELSE /\ sentence' = RunOnceRead(r).sentence
                  /\ pending_exit' = RunOnceRead(r).exit
                  /\ stderr' = stderr \o RunOnceRead(r).err
                  /\ pc' = "exec"
    /\ UNCHANGED <<variant, strategy, state, first, second, _color,
                   color_foreground, prompt_input, outcome, log, lifecycle, calls>>

\* Mutant: the pending SystemExit is lost once the output is written.
RunOnceFinally_noexit(ok) ==
    IF ok
    THEN [out |-> <<ExecuteSingle(sentence) \o Newline>>, outcome |-> "returned"]
    ELSE [out |-> <<>>, outcome |-> "ValueError"]

\* _run_once, the `finally`: how run() ends once the callback returned (ok)
\* or raised.  A pending SystemExit goes on after the block; an exception
\* raised inside the block replaces it.
RunOnceFinally(ok) ==
    IF ok
    THEN [out |-> <<ExecuteSingle(sentence) \o Newline>>,
          outcome |-> IF pending_exit THEN "SystemExit" ELSE "returned"]
    ELSE [out |-> <<>>, outcome |-> "ValueError"]

\* _run_once, the `finally`: the callback on `sentence`, then print(out).
NonInteractiveExecute ==
    /\ UNCHANGED tool_vars
    /\ pc = "exec"
    /\ variant = "nonint"
    /\ \E ok \in BOOLEAN :
         /\ calls' = Append(calls, [args |-> <<sentence>>, ok |-> ok])
         /\ stdout' = stdout \o RunOnceFinally(ok).out
         /\ outcome' = RunOnceFinally(ok).outcome
    /\ pc' = "done"
    /\ UNCHANGED <<variant, strategy, buffer, state, first, second, _color,
                   color_foreground, prompt_input, sentence, pending_exit,
                   stderr, log, lifecycle, events, inputs>>

\* The status the process ends with: run() is the last call of app(), so a
\* return gives 0; sys.exit(1) and an uncaught exception give 1.
ExitStatus == IF outcome = "returned" THEN 0 ELSE 1

----------------------------------------------------------------------------

Next ==
    \/ RunInteractive
    \/ RunNonInteractive
    \/ \E ev \in RawEvents : SingleInput(ev)
    \/ SingleExecute
    \/ \E ev \in RawEvents : DualInput(ev)
    \/ DualExecute
    \/ \E ev \in RawEvents : NonInteractiveInput(ev)
    \/ NonInteractiveExecute

Spec == Init /\ [][Next]_all_vars

----------------------------------------------------------------------------
(* Vocabulary of the properties *)

\* A non-empty text returned by InputStrategy.input().
IsText(i) == i.k = "text" /\ i.t # <<>>

\* This step ends a call of InputStrategy.input() (it returned or raised).
NewInput == Len(inputs') = Len(inputs) + 1

\* This step invokes the execution callback.
NewCall == Len(calls') = Len(calls) + 1

CallArgs == [i \in 1..Len(calls) |-> calls[i].args]

Max(S) == CHOOSE m \in S : \A n \in S : n <= m

----------------------------------------------------------------------------
(* Dual-input session *)

\* C1: in the dual-input loop an input event ends the loop if and only if it
\* is an EndOfInput received in AWAITING_FIRST (state 00), and the loop then
\* ends normally; a raw line that only extends a multi-line input ends nothing.
C1_LoopEndsOnlyOnEofInAwaitingFirst ==
    [][ /\ (variant = "dual" /\ NewInput) =>
             /\ pc = "input"
             /\ IF state = 0 /\ Last(inputs').k = "EOFError"
                THEN pc' = "done" /\ outcome' = "returned"
                ELSE pc' # "done" /\ outcome' = "running"
        /\ (variant = "dual" /\ events' # events /\ ~NewInput) =>
             pc' = "input" /\ outcome' = "running"
      ]_vars

\* C1 witness: a dual session that ended on EndOfInput after it had survived
\* an earlier EndOfInput (received in AWAITING_SECOND).
C1_Witness ==
    /\ variant = "dual"
    /\ pc = "done"
    /\ outcome = "returned"
    /\ \E i \in 1..(Len(inputs) - 1) :
         i > 1 /\ IsText(inputs[i - 1]) /\ inputs[i].k = "EOFError"

\* The pair a READY step must execute after the inputs ins: the last input,
\* and before it the latest input that is a non-empty text or an EndOfInput
\* (an EndOfInput there means that no first input is pending).
LastPair(ins) ==
    LET marks == {i \in 1..(Len(ins) - 1) :
                    IsText(ins[i]) \/ ins[i].k = "EOFError"}
    IN IF marks = {} THEN << <<>>, <<>> >>
       ELSE << ins[Max(marks)].t, ins[Len(ins)].t >>

\* C2: an EndOfInput in AWAITING_SECOND returns the session to AWAITING_FIRST
\* without ending it, without invoking the callback and without any error;
\* every execution takes as its pair the two latest accepted inputs, with no
\* EndOfInput between them, so an abandoned first input is never passed.
C2_AbandonedFirstIsDiscarded ==
    [][ /\ (/\ variant = "dual" /\ pc = "input" /\ state = 10
            /\ NewInput /\ Last(inputs').k = "EOFError") =>
             /\ state' = 0
             /\ pc' = "input"
             /\ outcome' = "running"
             /\ calls' = calls
             /\ stderr' = stderr /\ log' = log
        /\ (variant = "dual" /\ NewCall) =>
             /\ Last(calls').args = LastPair(inputs)
             /\ IsText(inputs[Len(inputs)])
      ]_vars

\* C2 witness: inputs x, EndOfInput, y, z with x different from y and z,
\* and the callback returned for (y, z).
C2_Witness ==
    /\ variant = "dual"
    /\ Len(inputs) = 4
    /\ IsText(inputs[1]) /\ inputs[2].k = "EOFError"
    /\ IsText(inputs[3]) /\ IsText(inputs[4])
    /\ inputs[1].t \notin {inputs[3].t, inputs[4].t}
    /\ Len(calls) = 1
    /\ calls[1] = [args |-> <<inputs[3].t, inputs[4].t>>, ok |-> TRUE]
    /\ outcome = "running"

\* The pairs completed by the inputs ins[i..], per the transition table:
\* held is <<>> in AWAITING_FIRST and <<first>> in AWAITING_SECOND.
RECURSIVE PairsFrom(_, _, _)
PairsFrom(ins, i, held) ==
    IF i > Len(ins) THEN <<>>
    ELSE IF IsText(ins[i])
         THEN IF held = <<>>
              THEN PairsFrom(ins, i + 1, <<ins[i].t>>)
              ELSE << <<held[1], ins[i].t>> >> \o PairsFrom(ins, i + 1, <<>>)
         ELSE IF ins[i].k = "EOFError"
              THEN PairsFrom(ins, i + 1, <<>>)
              ELSE PairsFrom(ins, i + 1, held)

\* C3: the callback is invoked once per completed pair, in READY (state 20)
\* only, with the two non-empty inputs of that pair in order; no input is read
\* in READY; when the callback returns, its result and a newline are written
\* in the same step and the session is back in AWAITING_FIRST, reading.
C3_ReadyExecutesEachPairOnce ==
    /\ [](variant = "dual" =>
            LET p == PairsFrom(inputs, 1, <<>>)
            IN /\ IF pc = "exec"
                  THEN /\ Len(p) = Len(calls) + 1
                       /\ CallArgs = SubSeq(p, 1, Len(calls))
                       /\ <<first, second>> = p[Len(p)]
                  ELSE CallArgs = p
               /\ \A i \in 1..Len(calls) :
                    calls[i].args[1] # <<>> /\ calls[i].args[2] # <<>>)
    /\ [][ /\ (variant = "dual" /\ NewCall) =>
                /\ pc = "exec" /\ state = 20
                /\ events' = events
                /\ Last(calls').ok =>
                     /\ stdout' = Append(stdout,
                                    ExecuteMulti(first, second) \o Newline)
                     /\ state' = 0
                     /\ pc' = "input"
           /\ (variant = "dual" /\ events' # events) => state \in {0, 10}
           /\ (variant = "dual" /\ state = 20 /\ pc = "exec") => NewCall
         ]_vars

\* C3 witness: a pair of two different inputs has been executed and written,
\* and the session is reading in AWAITING_FIRST again.
C3_Witness ==
    /\ variant = "dual"
    /\ pc = "input"
    /\ state = 0
    /\ Len(calls) = 1
    /\ calls[1].ok
    /\ calls[1].args[1] # calls[1].args[2]
    /\ Last(stdout) = ExecuteMulti(calls[1].args[1], calls[1].args[2]) \o Newline

\* C4: a ValueError of the callback in READY is reported and does not end the
\* dual session: run() never ends by that error, and every failed call has
\* been logged.
C4_DualCallbackFailureContinues ==
    variant = "dual" =>
        /\ outcome # "ValueError"
        /\ Len(log) = Cardinality({i \in 1..Len(calls) : ~calls[i].ok})

----------------------------------------------------------------------------
(* Single-input session *)

\* The texts of the non-empty inputs, in input order.
Texts ==
    LET sel == SelectSeq(inputs, IsText)
    IN [i \in 1..Len(sel) |-> sel[i].t]

\* The writes of a single-argument callback's result, in order.
ResultWrites == SelectSeq(stdout, LAMBDA w : w # <<>> /\ Head(w) = "S(")

\* The writes expected for the calls that returned, in order.
ExpectedWrites ==
    LET good == SelectSeq(calls, LAMBDA c : c.ok)
    IN [i \in 1..Len(good) |-> ExecuteSingle(good[i].args[1]) \o Newline]

\* C5: in the single-input session an interrupt during input writes the
\* notice, and a ValueError of the callback is logged; neither ends the loop,
\* writes a result or invokes the callback (again), and the session reads on.
C5_SingleSurvivesInterruptAndFailure ==
    [][ /\ (variant = "single" /\ NewInput
            /\ Last(inputs').k = "KeyboardInterrupt") =>
             /\ pc' = "input"
             /\ outcome' = "running"
             /\ calls' = calls
             /\ stdout' = Append(stdout, InterruptNotice)
             /\ log' = log
        /\ (variant = "single" /\ NewCall /\ ~Last(calls').ok) =>
             /\ pc' = "input"
             /\ outcome' = "running"
             /\ stdout' = stdout
             /\ log' = Append(log, FatalValueError)
      ]_vars

\* C5 witness: after an interrupt and after a failed execution the session
\* has executed a later input.
C5_Witness ==
    /\ variant = "single"
    /\ \E i \in 1..Len(inputs) : inputs[i].k = "KeyboardInterrupt"
    /\ Len(calls) = 2
    /\ ~calls[1].ok
    /\ calls[2].ok
    /\ Len(log) = 1
    /\ pc = "input"

\* C6: in the single-input session the callback has been invoked exactly once
\* for each non-empty input, in input order (the last one is pending while the
\* callback runs), never for an empty input, and whenever the session reads,
\* the results written are exactly those of the calls that returned, each once
\* and each followed by a newline.
C6_SingleExecutesEachNonEmptyInputOnce ==
    variant = "single" =>
        /\ IF pc = "exec"
           THEN /\ Len(Texts) = Len(calls) + 1
                /\ CallArgs = [i \in 1..Len(calls) |-> <<Texts[i]>>]
                /\ prompt_input = Texts[Len(Texts)]
           ELSE CallArgs = [i \in 1..Len(Texts) |-> <<Texts[i]>>]
        /\ pc # "exec" => ResultWrites = ExpectedWrites

\* C6 witness: two different non-empty inputs executed and written in order,
\* with an empty input among the inputs.
C6_Witness ==
    /\ variant = "single"
    /\ pc = "input"
    /\ \E i \in 1..Len(inputs) : inputs[i] = [k |-> "text", t |-> <<>>]
    /\ Len(calls) = 2
    /\ calls[1].ok /\ calls[2].ok
    /\ calls[1].args # calls[2].args
    /\ Len(ResultWrites) = 2

----------------------------------------------------------------------------
(* Non-interactive session *)

\* The argument the callback must get: the stripped input, "" without one.
ExpectedSentence ==
    IF Last(inputs).k = "text" THEN Strip(Last(inputs).t) ELSE <<>>

\* C7: every non-interactive run, however the read ended and whether or not
\* the callback failed, has invoked the callback exactly once on the stripped
\* input (on "" without input), has attempted exactly one write of output,
\* and has written no banner.
C7_NonInteractiveExecutesAndWritesOnce ==
    (variant = "nonint" /\ pc = "done") =>
        /\ Len(calls) = 1
        /\ calls[1].args = <<ExpectedSentence>>
        /\ Len(ResultWrites) = 1
        /\ \A i \in 1..Len(stdout) : stdout[i] # Banner

----------------------------------------------------------------------------
(* EndOfInput in the three sessions *)

----------------------------------------------------------------------------
(* MultipleInputStrategy *)

RECURSIVE Concat(_)
Concat(ls) ==
    IF ls = <<>> THEN <<>>
    ELSE Concat(SubSeq(ls, 1, Len(ls) - 1)) \o ls[Len(ls)]

\* What the calls of MultipleInputStrategy.input must have returned or raised
\* on the raw events evs[i..], given the lines acc fed since the last call
\* ended: lines followed by end-of-file give their concatenation, end-of-file
\* on no line gives EndOfInput, and each call starts with no line.
RECURSIVE RefMultiple(_, _, _)
RefMultiple(evs, i, acc) ==
    IF i > Len(evs) THEN <<>>
    ELSE CASE evs[i].k = "line" ->
                RefMultiple(evs, i + 1, Append(acc, evs[i].t))
           [] evs[i].k = "eof" ->
                << IF acc = <<>> THEN [k |-> "EOFError", t |-> <<>>]
                   ELSE [k |-> "text", t |-> Concat(acc)] >>
                \o RefMultiple(evs, i + 1, <<>>)
           [] evs[i].k = "int" ->
                << [k |-> "KeyboardInterrupt", t |-> <<>>] >>
                \o RefMultiple(evs, i + 1, <<>>)

\* C10: MultipleInputStrategy.input, fed lines l1..ln (n >= 1) and then
\* EndOfInput, returns l1..ln concatenated in order with nothing between them
\* and does not raise; fed EndOfInput on an empty buffer it raises EndOfInput;
\* each call starts from an empty buffer.
C10_MultilineReturnsConcatenation ==
    strategy = "multi" => inputs = RefMultiple(events, 1, <<>>)

\* C10 witness: lines "a", "b" and end-of-file returned "ab", and a following
\* end-of-file raised EndOfInput.
C10_Witness ==
    /\ strategy = "multi"
    /\ Len(events) = 4
    /\ events[1] = Line(<<"a">>) /\ events[2] = Line(<<"b">>)
    /\ events[3] = EOF /\ events[4] = EOF
    /\ inputs = <<[k |-> "text", t |-> <<"a", "b">>],
                  [k |-> "EOFError", t |-> <<>>]>>

----------------------------------------------------------------------------
(* Table build: CSVUtilsBase.prepare_kv with CsvUtils._do_preprocess *)

\* The session engine is not running.
SessionOff ==
    /\ variant = "none"
    /\ strategy = "none"
    /\ pc = "off"
    /\ buffer = <<>>
    /\ state = 0
    /\ first = <<>>
    /\ second = <<>>
    /\ _color = "cyan"
    /\ color_foreground = "cyan"
    /\ prompt_input = <<>>
    /\ sentence = <<>>
    /\ pending_exit = FALSE
    /\ outcome = "running"
    /\ stdout = <<>>
    /\ stderr = <<>>
    /\ log = <<>>
    /\ lifecycle = <<>>
    /\ calls = <<>>
    /\ events = <<>>
    /\ inputs = <<>>

\* The number of rows of an input file.
MaxRows == 2

\* The largest field number a caller passes (the smallest is -1).
MaxIdx == 3

Indices == (0 - 1)..MaxIdx

Row_cat10   == <<"c", "a", "t", ",", "1", "0">>
Row_dog5    == <<"d", "o", "g", ",", "5">>
Row_cat7    == <<" ", "c", "a", "t", ",", "7", "\n">>
Row_a_b1    == <<"a", "_", "b", ",", "1">>
Row_ab2     == <<"a", " ", "b", ",", "2">>
Row_x       == <<"x">>
Row_7c_d    == <<"7", ",", "c", "_", "d">>

RowSet == {Row_cat10, Row_dog5, Row_cat7, Row_a_b1, Row_ab2, Row_x, Row_7c_d}

RowLists == UNION {[1..n -> RowSet] : n \in 0..MaxRows}

Delims == { <<",">>, <<";">> }

\* str.split(sep) for a non-empty sep, scanning from the left; cur is the
\* field being collected.
RECURSIVE SplitFrom(_, _, _)
SplitFrom(s, sep, cur) ==
    IF s = <<>> THEN <<cur>>
    ELSE IF Len(s) >= Len(sep) /\ SubSeq(s, 1, Len(sep)) = sep
         THEN <<cur>> \o SplitFrom(SubSeq(s, Len(sep) + 1, Len(s)), sep, <<>>)
         ELSE SplitFrom(Tail(s), sep, Append(cur, Head(s)))

Split(s, sep) == SplitFrom(s, sep, <<>>)

\* CsvUtils.replace_underscore
ReplaceUnderscore(line) ==
    LET t == Strip(line)
    IN [i \in 1..Len(t) |-> IF t[i] = "_" THEN " " ELSE t[i]]

\* CsvUtils._do_preprocess: column[0] is normalised, whatever the key field is.
DoPreprocess(column) ==
    [column EXCEPT ![1] = ReplaceUnderscore(column[1])]

\* CSVUtilsBase.preprocess, one line: strip, split, _do_preprocess.
Preprocess(line) == DoPreprocess(Split(Strip(line), delim))

\* d[k] = v on a dict d.
DictSet(d, k, v) ==
    [x \in (DOMAIN d) \cup {k} |-> IF x = k THEN v ELSE d[x]]

\* Mutant: only the range of the field numbers is checked.
Validate_rangeOnly(k, v) ==
    IF k < 1 \/ v < 1 THEN "ValueError" ELSE "ok"

\* prepare_kv: is_ranged_or_raise, then is_different_idx_or_raise.
Validate(k, v) ==
    IF k < 1 \/ v < 1 THEN "ValueError"
    ELSE IF k = v THEN "ValueError"
    ELSE "ok"

\* Mutant: a row that lacks a field is skipped.
RowStep_skip(d, line) ==
    LET row == Preprocess(line)
    IN IF key_idx > Len(row) \/ value_idx > Len(row)
       THEN [err |-> FALSE, kv |-> d]
       ELSE [err |-> FALSE, kv |-> DictSet(d, row[key_idx], row[value_idx])]

\* Mutant: a key that is already in the dict keeps its value.
RowStep_firstWins(d, line) ==
    LET row == Preprocess(line)
    IN IF key_idx > Len(row) \/ value_idx > Len(row)
       THEN [err |-> TRUE, kv |-> d]
       ELSE IF row[key_idx] \in DOMAIN d
            THEN [err |-> FALSE, kv |-> d]
            ELSE [err |-> FALSE, kv |-> DictSet(d, row[key_idx], row[value_idx])]

\* prepare_kv, one turn of `{row[k]: row[v] for row in it}` with k = key_idx - 1
\* and v = value_idx - 1 (0-based, here 1-based): IndexError on a short row.
RowStep(d, line) ==
    LET row == Preprocess(line)
    IN IF key_idx > Len(row) \/ value_idx > Len(row)
       THEN [err |-> TRUE, kv |-> d]
       ELSE [err |-> FALSE, kv |-> DictSet(d, row[key_idx], row[value_idx])]

\* prepare_kv, lines 34-39: the two checks of the field numbers.
CsvValidate ==
    /\ csv_pc = "validate"
    /\ csv_pc' = IF Validate(key_idx, value_idx) = "ok" THEN "rows"
                 ELSE Validate(key_idx, value_idx)
    /\ UNCHANGED <<lines, delim, key_idx, value_idx, row_no, kv>>
    /\ UNCHANGED <<vars, finder_vars, hist_vars>>

\* prepare_kv, the comprehension on the next row; an IndexError is re-raised
\* and the dict under construction is lost.
CsvRow ==
    /\ csv_pc = "rows"
    /\ row_no < Len(lines)
    /\ LET r == RowStep(kv, lines[row_no + 1])
       IN /\ row_no' = row_no + 1
          /\ csv_pc' = IF r.err THEN "IndexError" ELSE "rows"
          /\ kv' = IF r.err THEN <<>> ELSE r.kv
    /\ UNCHANGED <<lines, delim, key_idx, value_idx>>
    /\ UNCHANGED <<vars, finder_vars, hist_vars>>

\* prepare_kv: the rows are exhausted and the dict is returned.
CsvReturn ==
    /\ csv_pc = "rows"
    /\ row_no = Len(lines)
    /\ csv_pc' = "returned"
    /\ UNCHANGED <<lines, delim, key_idx, value_idx, row_no, kv>>
    /\ UNCHANGED <<vars, finder_vars, hist_vars>>

\* create_dict_from_io(text, delim, key_idx, value_idx) is called.
CsvInit ==
    /\ SessionOff
    /\ FinderOff
    /\ HistOff
    /\ lines \in RowLists
    /\ delim \in Delims
    /\ key_idx \in Indices
    /\ value_idx \in Indices
    /\ csv_pc = "validate"
    /\ row_no = 0
    /\ kv = <<>>

CsvNext == CsvValidate \/ CsvRow \/ CsvReturn

CsvSpec == CsvInit /\ [][CsvNext]_all_vars

----------------------------------------------------------------------------
(* Properties of the table build *)

\* The number of fields of a raw line: one more than the number of
\* delimiters found in the stripped line, scanning from the left.
RECURSIVE CountDelim(_)
CountDelim(s) ==
    IF Len(s) < Len(delim) THEN 0
    ELSE IF SubSeq(s, 1, Len(delim)) = delim
         THEN 1 + CountDelim(SubSeq(s, Len(delim) + 1, Len(s)))
         ELSE CountDelim(Tail(s))

FieldCount(line) == 1 + CountDelim(Strip(line))

RowKey(i)   == Preprocess(lines[i])[key_idx]
RowValue(i) == Preprocess(lines[i])[value_idx]

ValidIndices == key_idx >= 1 /\ value_idx >= 1 /\ key_idx # value_idx

FieldsNeeded == IF key_idx > value_idx THEN key_idx ELSE value_idx

\* C15: whenever key_idx = value_idx (whatever the numbers, below 1 too) or
\* one of them is below 1, the build fails with the ValueError of the checks,
\* before any row is examined, and no table is built.
C15_BadIndicesFailBeforeAnyRow ==
    (key_idx = value_idx \/ key_idx < 1 \/ value_idx < 1) =>
        /\ csv_pc \in {"validate", "ValueError"}
        /\ row_no = 0
        /\ kv = <<>>

\* C15 witness: equal field numbers below 1 on a non-empty file have failed.
C15_Witness ==
    /\ key_idx = value_idx
    /\ key_idx < 1
    /\ lines # <<>>
    /\ csv_pc = "ValueError"

\* C16: with valid field numbers, once the build has ended: if some row has
\* fewer fields than max(key_idx, value_idx) it ended with IndexError and no
\* table; otherwise it returned a table whose keys are exactly the keys of
\* the rows.
C16_ShortRowAbortsBuild ==
    (ValidIndices /\ csv_pc \notin {"validate", "rows"}) =>
        IF \E i \in 1..Len(lines) : FieldCount(lines[i]) < FieldsNeeded
        THEN csv_pc = "IndexError" /\ kv = <<>>
        ELSE /\ csv_pc = "returned"
             /\ DOMAIN kv = {RowKey(i) : i \in 1..Len(lines)}

\* C16 witness: a well-formed row followed by a one-field row: no table.
C16_Witness ==
    /\ lines = <<Row_cat10, Row_x>>
    /\ delim = <<",">>
    /\ key_idx = 1 /\ value_idx = 2
    /\ csv_pc = "IndexError"
    /\ row_no = 2

\* C17: in the table returned, each key maps to the value of the last row
\* that yields that (normalised) key.
C17_LastRowWins ==
    csv_pc = "returned" =>
        \A key \in DOMAIN kv :
            kv[key] = RowValue(Max({i \in 1..Len(lines) : RowKey(i) = key}))

\* C17 witness: "a_b,1" then "a b,2" give the one key "a b" with value "2".
C17_Witness ==
    /\ lines = <<Row_a_b1, Row_ab2>>
    /\ delim = <<",">>
    /\ key_idx = 1 /\ value_idx = 2
    /\ csv_pc = "returned"
    /\ DOMAIN kv = { <<"a", " ", "b">> }
    /\ kv[<<"a", " ", "b">>] = <<"2">>

----------------------------------------------------------------------------
(* The tag lookup: TFindEscaper, Formatter and TokenFinder (tfind.py) *)

Parentheses == {"(", ")"}

\* Mutant: only the opening parenthesis is escaped.
RECURSIVE EscapeParentheses_openOnly(_)
EscapeParentheses_openOnly(text) ==
    IF text = <<>> THEN <<>>
    ELSE IF Head(text) = "("
         THEN <<"\\", Head(text)>> \o EscapeParentheses_openOnly(Tail(text))
         ELSE <<Head(text)>> \o EscapeParentheses_openOnly(Tail(text))

\* TFindEscaper.escape_parentheses: re.sub(r"([\(\)])", r"\\\g<1>", text),
\* every match replaced, from the left, by a backslash and the match.
RECURSIVE EscapeParentheses(_)
EscapeParentheses(text) ==
    IF text = <<>> THEN <<>>
    ELSE IF Head(text) \in Parentheses
         THEN <<"\\", Head(text)>> \o EscapeParentheses(Tail(text))
         ELSE <<Head(text)>> \o EscapeParentheses(Tail(text))

\* Formatter.to_csv and Formatter.to_a1111, as TokenFinder._formatter.
Formatter(token) ==
    IF _formatter = "a1111" THEN EscapeParentheses(token) ELSE token

NULL == <<"N", "U", "L", "L">>

\* Mutant: a key the table lacks gets an empty count.
Get_emptyDefault(kvstore, new_token) ==
    IF new_token \in DOMAIN kvstore THEN kvstore[new_token] ELSE <<>>

\* kvstore.get(new_token, "NULL")
Get(kvstore, new_token) ==
    IF new_token \in DOMAIN kvstore THEN kvstore[new_token] ELSE NULL

\* Mutant: the table is asked for the formatted token.
Serialized_formattedKey(new_token, kvstore) ==
    JoinSep(<<Formatter(new_token), Get(kvstore, Formatter(new_token))>>,
            sep_field)

\* The body of the loop after the test: nums, token_escaped, columns,
\* serialized = field_d.join(columns).
Serialized(new_token, kvstore) ==
    JoinSep(<<Formatter(new_token), Get(kvstore, new_token)>>, sep_field)

\* Mutant: a blank token is skipped and the loop goes on.
RECURSIVE ExecuteFor_continue(_, _, _)
ExecuteFor_continue(tokens, kvstore, result) ==
    IF tokens = <<>> THEN result
    ELSE IF Strip(Head(tokens)) = <<>>
         THEN ExecuteFor_continue(Tail(tokens), kvstore, result)
         ELSE ExecuteFor_continue(Tail(tokens), kvstore,
                  Append(result, Serialized(Strip(Head(tokens)), kvstore)))

\* `for token in prompt.split(in_d)`: strip, break on a blank token, append.
RECURSIVE ExecuteFor(_, _, _)
ExecuteFor(tokens, kvstore, result) ==
    IF tokens = <<>> THEN result
    ELSE IF Strip(Head(tokens)) = <<>>
         THEN result
         ELSE ExecuteFor(Tail(tokens), kvstore,
                  Append(result, Serialized(Strip(Head(tokens)), kvstore)))

\* TokenFinder.execute: the exception raised, or the list `result` and the
\* string out_d.join(result) returned.
Execute(prompt, kvstore) ==
    IF sep_field = None
    THEN [k |-> "ValueError", records |-> <<>>, t |-> <<>>]
    ELSE LET result == ExecuteFor(Split(prompt, sep_input), kvstore, <<>>)
         IN [k |-> "returned", records |-> result,
             t |-> JoinSep(result, sep_output)]

\* The tables, prompts and delimiters of the calls explored.
Key_cat   == <<"c", "a", "t">>
Key_dog   == <<"d", "o", "g">>
Key_cparen == <<"c", "(">>
Tags_catdog == (Key_cat :> <<"1", "0">>) @@ (Key_dog :> <<"5">>)
Tags_paren  == (Key_cparen :> <<"7">>) @@ (<<"a">> :> <<"1">>)
TagTables == { <<>>, Tags_catdog, Tags_paren }

Prompt_cat_dog_fox == <<"c", "a", "t", ",", " ", "d", "o", "g", ",", " ", "f", "o", "x">>
Prompt_a_blank_b   == <<"a", ",", " ", ",", "b">>
Prompt_trailing    == <<"c", "a", "t", ",">>
Prompt_parens      == <<"c", "(", ",", " ", "(", "d", ")">>
Prompt_semicolon   == <<"a", ";", "d", "o", "g">>
Prompts == { <<>>, Prompt_cat_dog_fox, Prompt_a_blank_b, Prompt_trailing,
             Prompt_parens, Prompt_semicolon }

InputSeparators  == { <<",">>, <<";">> }
OutputSeparators == { <<" ", "|", " ">>, <<"\n">> }
FieldSeparators  == { None, <<>>, <<":">>, <<",", " ">> }
Formatters       == {"csv", "a1111"}

\* The length of the texts handed to escape_parentheses.
MaxTextLen == 3

TextAlphabet == {"a", "(", ")", "\\"}
Texts_n == UNION {[1..n -> TextAlphabet] : n \in 0..MaxTextLen}

\* One call of TokenFinder.execute.
FinderExecute ==
    /\ finder_pc = "call"
    /\ LET r == Execute(arg_prompt, tags_n_count)
       IN /\ finder_pc' = r.k
          /\ ret' = [records |-> r.records, t |-> r.t]
    /\ UNCHANGED <<tags_n_count, sep_input, sep_output, sep_field, _formatter,
                   arg_prompt, esc_arg, esc_pc, esc_ret>>
    /\ UNCHANGED <<vars, csv_vars, hist_vars>>

\* One call of Formatter.to_a1111.
FinderEscape ==
    /\ esc_pc = "call"
    /\ esc_ret' = EscapeParentheses(esc_arg)
    /\ esc_pc' = "returned"
    /\ UNCHANGED <<tags_n_count, sep_input, sep_output, sep_field, _formatter,
                   arg_prompt, finder_pc, ret, esc_arg>>
    /\ UNCHANGED <<vars, csv_vars, hist_vars>>

\* A TokenFinder about to execute a prompt, or a text about to be escaped.
FinderInit ==
    /\ SessionOff
    /\ CsvOff
    /\ HistOff
    /\ ret = [records |-> <<>>, t |-> <<>>]
    /\ esc_ret = <<>>
    /\ \/ /\ tags_n_count \in TagTables
          /\ sep_input \in InputSeparators
          /\ sep_output \in OutputSeparators
          /\ sep_field \in FieldSeparators
          /\ _formatter \in Formatters
          /\ arg_prompt \in Prompts
          /\ finder_pc = "call"
          /\ esc_arg = <<>>
          /\ esc_pc = "off"
       \/ /\ tags_n_count = <<>>
          /\ sep_input = <<>>
          /\ sep_output = <<>>
          /\ sep_field = None
          /\ _formatter = "none"
          /\ arg_prompt = <<>>
          /\ finder_pc = "off"
          /\ esc_arg \in Texts_n
          /\ esc_pc = "call"

FinderNext == FinderExecute \/ FinderEscape

FinderSpec == FinderInit /\ [][FinderNext]_all_vars

----------------------------------------------------------------------------
(* Properties of the tag lookup *)

\* The reference: the stripped tokens of the prompt, how many of them stand
\* before the first blank one, the record of a token, the joined line.
RefTokens ==
    LET tokens == Split(arg_prompt, sep_input)
    IN [i \in 1..Len(tokens) |-> Strip(tokens[i])]

RefBlanks == {i \in 1..Len(RefTokens) : RefTokens[i] = <<>>}

RefKept ==
    IF RefBlanks = {} THEN Len(RefTokens)
    ELSE (CHOOSE i \in RefBlanks : \A j \in RefBlanks : i <= j) - 1

RefRecord(t) ==
    Formatter(t) \o sep_field \o
    (IF t \in DOMAIN tags_n_count THEN tags_n_count[t] ELSE NULL)

RECURSIVE RefLine(_)
RefLine(n) ==
    IF n = 0 THEN <<>>
    ELSE IF n = 1 THEN RefRecord(RefTokens[1])
    ELSE RefLine(n - 1) \o sep_output \o RefRecord(RefTokens[n])

\* C11: what execute returns is the reference line: the records
\* formatter(t) + field_separator + (table[t] or "NULL") of the stripped
\* tokens standing before the first blank one, in order, joined with
\* output_separator; the table is asked for the unformatted token.
C11_ExecuteEqualsReference ==
    finder_pc = "returned" => ret.t = RefLine(RefKept)

\* C11 witness: table {cat:10, dog:5}, separators ",", ":", " | ", the plain
\* formatter: "cat, dog, fox" has given "cat:10 | dog:5 | fox:NULL".
C11_Witness ==
    /\ finder_pc = "returned"
    /\ tags_n_count = Tags_catdog
    /\ sep_input = <<",">> /\ sep_field = <<":">> /\ sep_output = <<" ", "|", " ">>
    /\ _formatter = "csv"
    /\ arg_prompt = Prompt_cat_dog_fox
    /\ ret.t = <<"c", "a", "t", ":", "1", "0", " ", "|", " ", "d", "o", "g", ":", "5", " ", "|", " ", "f", "o", "x", ":", "N", "U", "L", "L">>

\* C12: when some token is blank after stripping, execute has built exactly
\* the records of the tokens standing before the first blank one: no token
\* after it contributes a record.
C12_BlankTokenEndsTheLine ==
    (finder_pc = "returned" /\ RefBlanks # {}) =>
        /\ Len(ret.records) = RefKept
        /\ \A i \in 1..Len(ret.records) :
               ret.records[i] = RefRecord(RefTokens[i])

\* C12 witness: "a, ,b" split on "," has given the record of "a" alone.
C12_Witness ==
    /\ finder_pc = "returned"
    /\ arg_prompt = Prompt_a_blank_b
    /\ sep_input = <<",">> /\ sep_field = <<":">>
    /\ tags_n_count = Tags_paren
    /\ ret.records = << <<"a", ":", "1">> >>
    /\ ret.t = <<"a", ":", "1">>

\* C14: whenever field_separator is None or the empty string, execute has
\* failed with ValueError and produced no output.
C14_NullOrEmptyFieldSeparatorFails ==
    (finder_pc \in {"returned", "ValueError"} /\ sep_field \in {None, <<>>}) =>
        /\ finder_pc = "ValueError"
        /\ ret.records = <<>>
        /\ ret.t = <<>>

\* The text without the backslashes that stand right before a parenthesis.
RECURSIVE DropAdded(_)
DropAdded(s) ==
    IF s = <<>> THEN <<>>
    ELSE IF Head(s) = "\\" /\ Len(s) >= 2 /\ s[2] \in Parentheses
         THEN <<s[2]>> \o DropAdded(Tail(Tail(s)))
         ELSE <<Head(s)>> \o DropAdded(Tail(s))

ParenCount(s) == Cardinality({i \in 1..Len(s) : s[i] \in Parentheses})

\* C18: in what to_a1111 returns every parenthesis stands right after a
\* backslash, the length is len(t) plus the number of parentheses of t, and
\* dropping the backslashes added gives t back.
C18_ParenthesesEscaped ==
    esc_pc = "returned" =>
        /\ \A i \in 1..Len(esc_ret) :
               esc_ret[i] \in Parentheses => (i > 1 /\ esc_ret[i - 1] = "\\")
        /\ Len(esc_ret) = Len(esc_arg) + ParenCount(esc_arg)
        /\ DropAdded(esc_ret) = esc_arg

\* C18 witness: "(a)" has become "\(a\)".
C18_Witness ==
    /\ esc_pc = "returned"
    /\ esc_arg = <<"(", "a", ")">>
    /\ esc_ret = <<"\\", "(", "a", "\\", ")">>

----------------------------------------------------------------------------
(* RunnerTagFindInteractive: the interactive tag-lookup session (tfind.py) *)
(*                                                                         *)
(* run() is RunnerInteractive.run and the hooks are those of tfind.py.  The *)
(* loop comes from ExecuteSingle, which cli_runner.py does not hold: it is  *)
(* the single-input loop of the specification (section 4.6).               *)

\* The number of input() calls of a tag-lookup session.
MaxTagEvents == 3

TagLines == { <<>>, <<"c", "a", "t">>, <<"f", "o", "x">>, <<"c", "a", "t", ",", " ", "f", "o", "x">> }

\* input() raises an error that is none of EOFError, KeyboardInterrupt and
\* ValueError (an OSError of the terminal).
InputError == [k |-> "err", t |-> <<>>]

TagEvents == {Line(l) : l \in TagLines} \cup {EOF, Interrupt, InputError}

TagInputOutcome(ev) ==
    IF ev.k = "err" THEN Raise("OSError") ELSE OnelineInput(ev)

HistWarning == <<"history file was not deleted">>

\* The single-input loop on the outcome r of input(): an empty input is read
\* again, EndOfInput ends the loop, an interrupt writes a notice and the loop
\* goes on; any other error leaves the loop.
TagBody(r) ==
    CASE r.k = "text" /\ r.t # <<>> -> [next |-> "exec", out |-> <<>>]
      [] r.k = "text" /\ r.t = <<>> -> [next |-> "input", out |-> <<>>]
      [] r.k = "EOFError"          -> [next |-> "break", out |-> <<>>]
      [] r.k = "KeyboardInterrupt" -> [next |-> "input", out |-> <<InterruptNotice>>]
      [] OTHER                     -> [next |-> "raise", out |-> <<>>]

\* The single-input loop after the callback: the result is written with a
\* trailing newline; a ValueError is logged and the loop goes on.
TagExecuted(r) ==
    IF r.k = "returned"
    THEN [next |-> "input", out |-> <<r.t \o Newline>>, log |-> <<>>]
    ELSE [next |-> "input", out |-> <<>>, log |-> <<FatalValueError>>]

\* _on_exit, given whether os.remove succeeds: the file, the log.
OnExit(removed) ==
    IF removed
    THEN [histfile |-> "removed", log |-> <<>>]
    ELSE [histfile |-> histfile, log |-> <<HistWarning>>]

\* run() up to the first input(): banner, then _on_init, which creates and
\* fills the history file and has readline read it; FileNotFoundError (the
\* file has vanished) is raised again and ends run().
TagRun ==
    /\ pc = "start"
    /\ variant = "tagfind"
    /\ stdout' = Append(stdout, Banner)
    /\ \E found \in BOOLEAN :
         IF found
         THEN /\ histfile' = "exists"
              /\ _histfile' = TRUE
              /\ lifecycle' = Append(lifecycle, "_on_init")
              /\ pc' = "input"
              /\ UNCHANGED outcome
         ELSE /\ histfile' = "absent"
              /\ pc' = "done"
              /\ outcome' = "FileNotFoundError"
              /\ UNCHANGED <<_histfile, lifecycle>>
    /\ UNCHANGED <<variant, strategy, buffer, state, first, second, _color,
                   color_foreground, prompt_input, sentence, pending_exit,
                   stderr, log, calls, events, inputs>>
    /\ UNCHANGED <<csv_vars, finder_vars, removals>>

\* One raw event delivered to the tag-lookup session; when the loop ends,
\* run() goes on with _on_exit; when an error leaves the loop, run() ends
\* with it at once.
TagInput(ev) ==
    /\ pc = "input"
    /\ variant = "tagfind"
    /\ Len(events) < MaxTagEvents
    /\ LET r == TagInputOutcome(ev)
           b == TagBody(r)
       IN /\ Deliver(ev, r)
          /\ prompt_input' = IF r.k = "text" THEN r.t ELSE prompt_input
          /\ stdout' = stdout \o b.out
          /\ CASE b.next = "break" ->
                    \E removed \in BOOLEAN :
                        /\ removals' = removals + 1
                        /\ histfile' = OnExit(removed).histfile
                        /\ log' = log \o OnExit(removed).log
                        /\ lifecycle' = Append(lifecycle, "_on_exit")
                        /\ pc' = "done"
                        /\ outcome' = "returned"
               [] b.next = "raise" ->
                    /\ pc' = "done"
                    /\ outcome' = r.k
                    /\ UNCHANGED <<removals, histfile, log, lifecycle>>
               [] OTHER ->
                    /\ pc' = b.next
                    /\ UNCHANGED <<removals, histfile, log, lifecycle, outcome>>
    /\ UNCHANGED <<variant, strategy, state, first, second, _color,
                   color_foreground, sentence, pending_exit, stderr, calls>>
    /\ UNCHANGED <<csv_vars, finder_vars, _histfile>>

\* _execute_single_inner: TokenFinder.execute(source, self.tags_n_count) on
\* a non-empty prompt_input, and what the loop does with its outcome.
TagExecute ==
    /\ pc = "exec"
    /\ variant = "tagfind"
    /\ LET r == Execute(prompt_input, tags_n_count)
           x == TagExecuted(r)
       IN /\ arg_prompt' = prompt_input
          /\ finder_pc' = r.k
          /\ ret' = [records |-> r.records, t |-> r.t]
          /\ calls' = Append(calls, [args |-> <<prompt_input>>,
                                     ok |-> r.k = "returned"])
          /\ stdout' = stdout \o x.out
          /\ log' = log \o x.log
          /\ pc' = x.next
    /\ UNCHANGED <<variant, strategy, buffer, state, first, second, _color,
                   color_foreground, prompt_input, sentence, pending_exit,
                   outcome, stderr, lifecycle, events, inputs>>
    /\ UNCHANGED <<tags_n_count, sep_input, sep_output, sep_field, _formatter,
                   esc_arg, esc_pc, esc_ret>>
    /\ UNCHANGED <<csv_vars, hist_vars>>

\* A tag-lookup session constructed on a table and a TokenFinder.
TagInit ==
    /\ variant = "tagfind"
    /\ strategy = "oneline"
    /\ pc = "start"
    /\ buffer = <<>>
    /\ state = 0
    /\ first = <<>>
    /\ second = <<>>
    /\ _color = "cyan"
    /\ color_foreground = "cyan"
    /\ prompt_input = <<>>
    /\ sentence = <<>>
    /\ pending_exit = FALSE
    /\ outcome = "running"
    /\ stdout = <<>>
    /\ stderr = <<>>
    /\ log = <<>>
    /\ lifecycle = <<>>
    /\ calls = <<>>
    /\ events = <<>>
    /\ inputs = <<>>
    /\ CsvOff
    /\ HistOff
    /\ tags_n_count \in { <<>>, Tags_catdog }
    /\ sep_input = <<",">>
    /\ sep_output = <<" ", "|", " ">>
    /\ sep_field \in { None, <<":">> }
    /\ _formatter \in Formatters
    /\ arg_prompt = <<>>
    /\ finder_pc = "off"
    /\ ret = [records |-> <<>>, t |-> <<>>]
    /\ esc_arg = <<>>
    /\ esc_pc = "off"
    /\ esc_ret = <<>>

TagNext ==
    \/ TagRun
    \/ \E ev \in TagEvents : TagInput(ev)
    \/ TagExecute

TagFindSpec == TagInit /\ [][TagNext]_all_vars

----------------------------------------------------------------------------
(* Properties of the tag-lookup session *)

\* The positions of the processed tokens of the last call that the table
\* does not hold.
UnknownTokens ==
    {i \in 1..RefKept : RefTokens[i] \notin DOMAIN tags_n_count}

\* C13: a call of the session's callback on a prompt with a processed token
\* that is not a key, the field separator being set: the call returns, the
\* record of each such token is formatter(t) + field_separator + "NULL", the
\* result is written with its newline, nothing is logged and the session
\* waits for the next input.
C13_UnknownKeyGivesNull ==
    [][ (pc = "exec" /\ variant = "tagfind" /\ sep_field # None
         /\ UnknownTokens' # {}) =>
            /\ finder_pc' = "returned"
            /\ \A i \in UnknownTokens' :
                   ret'.records[i] = Formatter(RefTokens'[i]) \o sep_field \o NULL
            /\ stdout' = Append(stdout, ret'.t \o Newline)
            /\ log' = log
            /\ outcome' = "running"
            /\ pc' = "input" ]_all_vars

\* C13 witness: "cat, fox" on {cat:10, dog:5} has been answered
\* "cat:10 | fox:NULL" and the session waits for input.
C13_Witness ==
    /\ variant = "tagfind"
    /\ pc = "input"
    /\ tags_n_count = Tags_catdog
    /\ prompt_input = <<"c", "a", "t", ",", " ", "f", "o", "x">>
    /\ calls # <<>>
    /\ Last(calls).ok
    /\ Last(stdout) = <<"c", "a", "t", ":", "1", "0", " ", "|", " ", "f", "o", "x", ":", "N", "U", "L", "L">> \o Newline

\* C19: once run() has ended after _on_init created the history file, one
\* deletion of the file has been attempted, and a deletion that failed is
\* logged and run() has returned.
C19_DeletionAttemptedOnEveryExit ==
    (variant = "tagfind" /\ pc = "done" /\ _histfile) =>
        /\ removals = 1
        /\ histfile = "exists" =>
               (Last(log) = HistWarning /\ outcome = "returned")

----------------------------------------------------------------------------
(* Dual-input session: an interrupt while a first input is pending *)

\* The last input was taken as a second input after at least one interrupt:
\* before it stand only interrupts and empty inputs back to a non-empty
\* text, which is the pending first input.  The position of that text, or 0.
PendingBeforeInterrupt(ins) ==
    LET n == Len(ins)
        c == {j \in 1..(n - 1) :
                /\ IsText(ins[j])
                /\ \A m \in (j + 1)..(n - 1) :
                       ins[m].k = "KeyboardInterrupt" \/ ins[m] = [k |-> "text", t |-> <<>>]
                /\ \E m \in (j + 1)..(n - 1) : ins[m].k = "KeyboardInterrupt"}
    IN IF c = {} THEN 0 ELSE Max(c)

\* C20: an interrupt received in AWAITING_SECOND (state 10) writes the notice
\* and changes neither the state nor the stored first input, and the
\* callback is not invoked; the next non-empty input becomes the second
\* input, and the callback is then given the first input stored before the
\* interrupt together with it.
C20_InterruptKeepsPendingFirst ==
    [][ /\ (/\ variant = "dual" /\ pc = "input" /\ state = 10
            /\ NewInput /\ Last(inputs').k = "KeyboardInterrupt") =>
             /\ stdout' = Append(stdout, InterruptNotice)
             /\ state' = 10
             /\ first' = first
             /\ calls' = calls
             /\ pc' = "input"
             /\ outcome' = "running"
        /\ (/\ variant = "dual" /\ pc = "input" /\ state = 10
            /\ NewInput /\ IsText(Last(inputs'))) =>
             /\ state' = 20
             /\ first' = first
             /\ second' = Last(inputs').t
             /\ pc' = "exec"
        /\ (/\ variant = "dual" /\ NewCall
            /\ PendingBeforeInterrupt(inputs) # 0) =>
             Last(calls').args =
                 <<inputs[PendingBeforeInterrupt(inputs)].t, Last(inputs).t>>
      ]_vars

\* C20 witness: inputs x, interrupt, y with x different from y; the notice
\* was written and the callback returned for (x, y).
C20_Witness ==
    /\ variant = "dual"
    /\ Len(inputs) = 3
    /\ IsText(inputs[1])
    /\ inputs[2].k = "KeyboardInterrupt"
    /\ IsText(inputs[3])
    /\ inputs[1].t # inputs[3].t
    /\ \E i \in 1..Len(stdout) : stdout[i] = InterruptNotice
    /\ calls = << [args |-> <<inputs[1].t, inputs[3].t>>, ok |-> TRUE] >>

----------------------------------------------------------------------------
(* Dual-input session: the foreground-style cue *)

\* C21: whenever the dual session waits for input in AWAITING_SECOND (state
\* 10) the cue color.color_foreground holds the distinguishing value, and
\* whenever it waits in AWAITING_FIRST (state 00), and when run() has ended,
\* it holds the default value saved in _color before the pair began.
C21_CueRestoredAfterEveryPair ==
    variant = "dual" =>
        /\ (pc = "input" /\ state = 10) =>
               (color_foreground = "green" /\ color_foreground # _color)
        /\ (pc = "input" /\ state = 0) => color_foreground = _color
        /\ pc = "done" => color_foreground = _color

----------------------------------------------------------------------------
(* Table build: which field is normalised *)

\* The fields of row i as the file gives them.
RawFields(i) == Split(Strip(lines[i]), delim)

\* A text with every underscore replaced by a space.
Underscored(t) == [j \in 1..Len(t) |-> IF t[j] = "_" THEN " " ELSE t[j]]

\* The key the claim gives row i.
ClaimedKey(i) == Underscored(RawFields(i)[key_idx])

\* C22: in the table returned, for every row, the key_idx-th field with its
\* underscores replaced by spaces is a key, and it maps to the value_idx-th
\* field of the last row with that key, unchanged.
C22_KeyFieldIsNormalised ==
    csv_pc = "returned" =>
        \A i \in 1..Len(lines) :
            /\ ClaimedKey(i) \in DOMAIN kv
            /\ (\A m \in (i + 1)..Len(lines) : ClaimedKey(m) # ClaimedKey(i)) =>
                   kv[ClaimedKey(i)] = RawFields(i)[value_idx]

----------------------------------------------------------------------------
(* Lifecycle hooks *)

BannerWrites == {i \in 1..Len(stdout) : stdout[i] = Banner}

\* C23: in each of the three variants, _on_init has run exactly once as soon
\* as run() is past its start (so before any input is read), _on_exit has run
\* exactly once, after it, when run() has ended and not before; the banner is
\* the first thing written, once, in the interactive variants, and is never
\* written by the non-interactive one.
C23_HooksRunOnceInEveryVariant ==
    variant \in Variants =>
        /\ lifecycle = CASE pc = "start" -> <<>>
                         [] pc = "done"  -> <<"_on_init", "_on_exit">>
                         [] OTHER        -> <<"_on_init">>
        /\ events # <<>> => pc # "start"
        /\ BannerWrites = IF variant \in {"single", "dual"} /\ pc # "start"
                          THEN {1} ELSE {}

----------------------------------------------------------------------------
(* Single-input session on the multi-line strategy *)

\* This step delivers an end-of-file to the session.
NewEof == Len(events') = Len(events) + 1 /\ Last(events') = EOF

\* C24: in the single-input session on the multi-line strategy, an
\* end-of-file received with at least one line buffered submits the
\* concatenation of the buffered lines as the input, which goes to the
\* callback when it is non-empty and is read over otherwise, and the session
\* keeps running; an end-of-file received on an empty buffer ends the
\* session, and nothing else does.
C24_EofSubmitsBufferedInput ==
    [][ (variant = "single" /\ strategy = "multi") =>
          /\ (NewEof /\ buffer # <<>>) =>
                /\ NewInput
                /\ Last(inputs') = [k |-> "text", t |-> Concat(buffer)]
                /\ prompt_input' = Concat(buffer)
                /\ buffer' = <<>>
                /\ outcome' = "running"
                /\ pc' = IF Concat(buffer) # <<>> THEN "exec" ELSE "input"
          /\ (NewEof /\ buffer = <<>>) =>
                (pc' = "done" /\ outcome' = "returned")
          /\ (pc # "done" /\ pc' = "done") => (NewEof /\ buffer = <<>>)
          /\ pc = "exec" =>
                (NewCall /\ Last(calls').args = <<prompt_input>>)
      ]_vars

\* C24 witness: lines "a", "b" and an end-of-file submitted "ab", which was
\* executed; the session went on and ended on the next end-of-file.
C24_Witness ==
    /\ variant = "single"
    /\ strategy = "multi"
    /\ events = <<Line(<<"a">>), Line(<<"b">>), EOF, EOF>>
    /\ calls = << [args |-> << <<"a", "b">> >>, ok |-> TRUE] >>
    /\ pc = "done"
    /\ outcome = "returned"

----------------------------------------------------------------------------
(* Dual-input session: the events the transition table leaves open *)

EmptyInput == [k |-> "text", t |-> <<>>]

\* C25: in the dual session an interrupt received in AWAITING_FIRST (state
\* 00) and an empty input received in AWAITING_FIRST or AWAITING_SECOND
\* (state 10) change neither the state nor the stored first input, invoke no
\* callback, do not end the session, and the session reads again in the
\* same state.
C25_OpenEventsChangeNothing ==
    [][ (/\ variant = "dual" /\ pc = "input" /\ NewInput
         /\ \/ state = 0 /\ Last(inputs').k = "KeyboardInterrupt"
            \/ state \in {0, 10} /\ Last(inputs') = EmptyInput) =>
            /\ state' = state
            /\ first' = first
            /\ second' = second
            /\ color_foreground' = color_foreground
            /\ calls' = calls
            /\ outcome' = "running"
            /\ pc' = "input"
      ]_vars

\* C25 witness: an interrupt and an empty input before the first input and an
\* empty input before the second one, and the pair was executed all the same.
C25_Witness ==
    /\ variant = "dual"
    /\ Len(inputs) = 5
    /\ inputs[1].k = "KeyboardInterrupt"
    /\ inputs[2] = EmptyInput
    /\ IsText(inputs[3])
    /\ inputs[4] = EmptyInput
    /\ IsText(inputs[5])
    /\ calls = << [args |-> <<inputs[3].t, inputs[5].t>>, ok |-> TRUE] >>
    /\ pc = "input"
    /\ state = 0

====
